---- MODULE Spec2Model ----
(***************************************************************************)
(* A model of backend/engine.py, run_simulation: the yearly projection of  *)
(* a household's assets, incomes, withdrawals and per-person tax buckets.  *)
(*                                                                         *)
(* Money is modelled by exact integers.  The engine computes in binary     *)
(* floating point; its rounding is not modelled.  Every input below is     *)
(* drawn on a grid (amounts that are multiples of 8, percentages that are  *)
(* multiples of 50 or 100) on which each product and quotient the engine   *)
(* forms is an integer, so \div is an exact division wherever it appears.  *)
(*                                                                         *)
(* Objects live in a heap (objs) and lists hold references, so that the    *)
(* difference between copying the caller's assets and sharing them is      *)
(* a difference of the model.                                              *)
(*                                                                         *)
(* The tax functions are modelled on whole pounds and return pence; their  *)
(* final round(x, 2) is modelled, an exact half penny falling either way.  *)
(* TaxSpec calls them directly; Spec is a run of run_simulation.           *)
(***************************************************************************)
EXTENDS Integers, Sequences, FiniteSets, TLC

\* ------------------------------------------------------------------ bounds
MaxYears == 2       \* the longest run simulates this many years
MaxAssets == 2      \* the longest asset list of an input

\* ------------------------------------------------------- program constants
PENSION_TAX_FREE_LIFETIME_LIMIT == 268275
ABSENT_RANK == 999
PERSONAL_ALLOWANCE == 12570
BASIC_RATE_LIMIT == 50270
HIGHER_RATE_LIMIT == 125140
PA_TAPER_THRESHOLD == 100000
CGT_ANNUAL_EXEMPT == 3000
DIVIDEND_ALLOWANCE == 500

\* models.py: AssetType
AssetType == {"isa", "pension", "general", "cash", "property", "rsu", "premium_bonds"}

\* models.py: the fields class Asset declares.  Reading any other attribute
\* of an Asset raises AttributeError.
AssetFields == {"id", "name", "type", "balance", "annual_growth_rate",
                "annual_contribution", "is_withdrawable",
                "max_annual_withdrawal", "owners"}

\* Optional[T]: None is the empty sequence, a value v is <<v>>.
None == << >>
Some(v) == << v >>

\* ----------------------------------------------------------------- helpers
Max2(a, b) == IF a >= b THEN a ELSE b
Min2(a, b) == IF a <= b THEN a ELSE b

\* a dict with key k set to v (insertion or overwrite)
Put(d, k, v) == [x \in (DOMAIN d) \cup {k} |-> IF x = k THEN v ELSE d[x]]

EmptyDict == [x \in {} |-> 0]

RECURSIVE SumSeq(_)
SumSeq(s) == IF s = << >> THEN 0 ELSE Head(s) + SumSeq(Tail(s))

\* amount * ((1 + inflation_rate/100) ** years)
RECURSIVE Inflate(_, _, _)
Inflate(amount, rate, years) ==
    IF years <= 0 THEN amount
    ELSE (Inflate(amount, rate, years - 1) * (100 + rate)) \div 100

\* {p.id: p for p in params.people}: the keys, in insertion order
RECURSIVE DictKeys(_, _)
DictKeys(ps, seen) ==
    IF ps = << >> THEN << >>
    ELSE IF Head(ps).id \in seen THEN DictKeys(Tail(ps), seen)
    ELSE << Head(ps).id >> \o DictKeys(Tail(ps), seen \cup {Head(ps).id})

SeqRange(s) == {s[i] : i \in DOMAIN s}

\* f"Withdrawal: {asset.name}", for the asset names the inputs use
WithdrawalLabel(name) ==
    CASE name = "Cash" -> "Withdrawal: Cash"
      [] name = "ISA" -> "Withdrawal: ISA"
      [] name = "Pension" -> "Withdrawal: Pension"
      [] name = "GIA" -> "Withdrawal: GIA"
      [] name = "House" -> "Withdrawal: House"
      [] name = "RSU" -> "Withdrawal: RSU"
      [] name = "Bonds" -> "Withdrawal: Bonds"

WithdrawalLabels ==
    {WithdrawalLabel(n) : n \in {"Cash", "ISA", "Pension", "GIA", "House", "RSU", "Bonds"}}

\* ------------------------------------------------------------ UK tax helpers
\* The tax functions take amounts in whole pounds and return pence.  Inside,
\* amounts are counted in half pounds, the finest grain the allowance taper
\* produces from whole pounds, and a tax before rounding is an exact number
\* [p |-> pence, f |-> two-hundredths of a penny].

\* h half pounds at r ten-thousandths (0.20 is 2000): h * r two-hundredths of
\* a penny, split so that no product leaves 32 bits
Band(h, r) ==
    [p |-> (h \div 200) * r + ((h % 200) * r) \div 200,
     f |-> ((h % 200) * r) % 200]

Add(a, b) ==
    [p |-> a.p + b.p + (a.f + b.f) \div 200, f |-> (a.f + b.f) % 200]

\* round(tax, 2).  Exactly half a penny is a value no double holds after the
\* engine's multiplications, so the double lies on either side of it: up says
\* on which.
round2(tax, up) ==
    IF tax.f > 100 THEN tax.p + 1
    ELSE IF tax.f < 100 THEN tax.p
    ELSE IF up THEN tax.p + 1 ELSE tax.p

\* mutant: the allowance tapers, and is back in full above the higher limit
_effective_personal_allowance_Restored(gross_income) ==
    IF gross_income > PA_TAPER_THRESHOLD /\ gross_income <= HIGHER_RATE_LIMIT
    THEN Max2(0, 2 * PERSONAL_ALLOWANCE - (gross_income - PA_TAPER_THRESHOLD))
    ELSE 2 * PERSONAL_ALLOWANCE

\* lines 15-20, in half pounds
_effective_personal_allowance(gross_income) ==
    IF gross_income > PA_TAPER_THRESHOLD
    THEN LET reduction == Min2(2 * PERSONAL_ALLOWANCE,
                               gross_income - PA_TAPER_THRESHOLD)
         IN  Max2(0, 2 * PERSONAL_ALLOWANCE - reduction)
    ELSE 2 * PERSONAL_ALLOWANCE

\* line 33
BasicBand(pa) == Max2(0, 2 * BASIC_RATE_LIMIT - pa)

\* lines 23-48
calculate_uk_income_tax(income, up) ==
    IF income <= 0 THEN 0
    ELSE LET pa == _effective_personal_allowance(income)
             taxable == Max2(0, 2 * income - pa)
             basic == Min2(taxable, BasicBand(pa))
             remainder == taxable - basic
             higher_band == 2 * (HIGHER_RATE_LIMIT - BASIC_RATE_LIMIT)
             higher == Min2(remainder, higher_band)
         IN  round2(Add(Add(Band(basic, 2000), Band(higher, 4000)),
                        Band(remainder - higher, 4500)), up)

\* lines 51-68
calculate_uk_cgt(gains, taxable_income, is_property, up) ==
    LET net_gain == Max2(0, gains - CGT_ANNUAL_EXEMPT)
        remaining_basic == Max2(0, BASIC_RATE_LIMIT - taxable_income)
        rate_basic == IF is_property THEN 1800 ELSE 1000
        rate_higher == IF is_property THEN 2400 ELSE 2000
        in_basic == Min2(net_gain, remaining_basic)
        in_higher == net_gain - in_basic
    IN  IF net_gain <= 0 THEN 0
        ELSE round2(Add(Band(2 * in_basic, rate_basic),
                        Band(2 * in_higher, rate_higher)), up)

\* lines 74-89
calculate_uk_dividend_tax(dividends, taxable_income, up) ==
    LET net_dividends == Max2(0, dividends - DIVIDEND_ALLOWANCE)
        remaining_basic == Max2(0, BASIC_RATE_LIMIT - taxable_income)
        remaining_higher ==
            Max2(0, HIGHER_RATE_LIMIT - Max2(BASIC_RATE_LIMIT, taxable_income))
        in_basic == Min2(net_dividends, remaining_basic)
        remainder == net_dividends - in_basic
        in_higher == Min2(remainder, remaining_higher)
        in_additional == Max2(0, remainder - remaining_higher)
    IN  IF net_dividends <= 0 THEN 0
        ELSE round2(Add(Add(Band(2 * in_basic, 875), Band(2 * in_higher, 3375)),
                        Band(2 * in_additional, 3935)), up)

\* ------------------------------------------------- asset tax treatment
_is_tax_free_withdrawal(asset) == asset.type \in {"isa", "cash", "premium_bonds"}
_is_pension_withdrawal(asset) == asset.type = "pension"
\* mutant: property counted among the assets of the standard gains
_is_cgt_asset_WithProperty(asset) == asset.type \in {"general", "rsu", "property"}

_is_cgt_asset(asset) == asset.type \in {"general", "rsu"}
_is_property_cgt(asset) == asset.type = "property"


\* ------------------------------------------------------------------ state
VARIABLES
    params,                     \* the caller's SimulationParams; .assets holds references
    objs,                       \* the heap: reference -> Asset object
    input0,                     \* the input as it was at the call (never written)
    pc,                         \* the engine's position
    age,                        \* the loop variable
    people,                     \* keys of the people dict, in insertion order
    person_tax_free_remaining,  \* person id -> remaining tax-free pension cash
    assets,                     \* the run's asset list (references)
    yearly_data,                \* the timeline so far
    required_income, generated_income, income_breakdown,
    person_taxable_income, person_cgt_gains,
    person_cgt_property_gains, person_dividend_income,
    shortfall, remaining_shortfall, sorted_assets,
    idx,                        \* position of the running for-loop
    result,                     \* what run_simulation returns (None before)
    bal0,                       \* observer: balances when the year began
    draws,                      \* observer: this year's withdrawals, in order
    attr_log,                   \* observer: this year's pension attributions
    tax_calls                   \* direct calls of the tax functions: the last two

vars == << params, objs, input0, pc, age, people, person_tax_free_remaining,
           assets, yearly_data, required_income, generated_income,
           income_breakdown, person_taxable_income, person_cgt_gains,
           person_cgt_property_gains, person_dividend_income, shortfall,
           remaining_shortfall, sorted_assets, idx, result, bal0, draws,
           attr_log, tax_calls >>

yearVars == << required_income, generated_income, income_breakdown,
               person_taxable_income, person_cgt_gains,
               person_cgt_property_gains, person_dividend_income >>

\* ------------------------------------------------------------ run_simulation

\* mutant: assets = params.assets, the caller's objects themselves
CopyAssets_Shared(refs, heap) == [refs |-> refs, heap |-> heap]

\* assets = [Asset(**a.model_dump()) for a in params.assets]
\* Every input asset is copied into a fresh object.
CopyAssets(refs, heap) ==
    LET n == Len(refs)
        base == Cardinality(DOMAIN heap)
    IN  [refs |-> [i \in 1..n |-> base + i],
         heap |-> [r \in (DOMAIN heap) \cup {base + i : i \in 1..n} |->
                      IF r \in DOMAIN heap THEN heap[r]
                      ELSE heap[refs[r - base]]]]

\* params.model_dump(): the parameters with the asset objects read out
ModelDump(p, heap) ==
    [p EXCEPT !.assets = [i \in DOMAIN p.assets |-> heap[p.assets[i]]]]

\* lines 123-139
Setup ==
    /\ pc = "setup"
    /\ LET ids == DictKeys(params.people, {})
           cp == CopyAssets(params.assets, objs)
       IN  /\ people' = ids
           /\ person_tax_free_remaining' =
                  [pid \in SeqRange(ids) |-> PENSION_TAX_FREE_LIFETIME_LIMIT]
           /\ assets' = cp.refs
           /\ objs' = cp.heap
    /\ yearly_data' = << >>
    /\ age' = params.current_age
    /\ pc' = "loop"
    /\ UNCHANGED << tax_calls, params, input0, yearVars, shortfall, remaining_shortfall,
                    sorted_assets, idx, result, bal0, draws, attr_log >>

\* mutant: the desired income required before retirement too
RequiredIncome_FromStart(p, a) ==
    Inflate(p.desired_annual_income, p.inflation_rate, a - p.current_age)

\* lines 144-147: required (inflation-adjusted) income in retirement
RequiredIncome(p, a) ==
    IF a >= p.retirement_age
    THEN Inflate(p.desired_annual_income, p.inflation_rate, a - p.current_age)
    ELSE 0

ZeroPerPerson == [pid \in SeqRange(people) |-> 0]

\* lines 159-172: the loop over params.incomes, from position i on
RECURSIVE ScheduledIncomes(_, _, _, _)
ScheduledIncomes(p, a, i, acc) ==
    IF i > Len(p.incomes) THEN acc
    ELSE LET inc == p.incomes[i]
             inflated_inc == Inflate(inc.amount, p.inflation_rate, a - p.current_age)
         IN  IF inc.start_age <= a /\ a <= inc.end_age
             THEN ScheduledIncomes(p, a, i + 1,
                    [gen |-> acc.gen + inflated_inc,
                     bd  |-> Put(acc.bd, inc.name, inflated_inc),
                     pti |-> IF inc.person_id # None
                                /\ inc.person_id[1] \in DOMAIN acc.pti
                             THEN [acc.pti EXCEPT ![inc.person_id[1]] = @ + inflated_inc]
                             ELSE acc.pti])
             ELSE ScheduledIncomes(p, a, i + 1,
                    [acc EXCEPT !.bd = Put(acc.bd, inc.name, 0)])

\* line 141 (loop test) and lines 143-172
BeginYear ==
    /\ pc = "loop"
    /\ age <= params.life_expectancy
    /\ required_income' = RequiredIncome(params, age)
    /\ LET r == ScheduledIncomes(params, age, 1,
                    [gen |-> 0, bd |-> EmptyDict, pti |-> ZeroPerPerson])
       IN  /\ generated_income' = r.gen
           /\ income_breakdown' = r.bd
           /\ person_taxable_income' = r.pti
    /\ person_cgt_gains' = ZeroPerPerson
    /\ person_cgt_property_gains' = ZeroPerPerson
    /\ person_dividend_income' = ZeroPerPerson
    /\ bal0' = [i \in DOMAIN assets |-> objs[assets[i]].balance]
    /\ draws' = << >>
    /\ attr_log' = << >>
    /\ shortfall' = 0
    /\ remaining_shortfall' = 0
    /\ sorted_assets' = << >>
    /\ idx' = 1
    /\ pc' = IF Len(assets) = 0 THEN "dividends" ELSE "growth"
    /\ UNCHANGED << tax_calls, params, objs, input0, age, people, person_tax_free_remaining,
                    assets, yearly_data, result >>

\* lines 176-177: growth = asset.balance * (asset.annual_growth_rate / 100.0)
Grown(asset) ==
    asset.balance + (asset.balance * asset.annual_growth_rate) \div 100

ApplyGrowth ==
    /\ pc = "growth"
    /\ objs' = [objs EXCEPT ![assets[idx]].balance = Grown(objs[assets[idx]])]
    /\ pc' = "contribution"
    /\ UNCHANGED << tax_calls, params, input0, age, people, person_tax_free_remaining, assets,
                    yearly_data, yearVars, shortfall, remaining_shortfall,
                    sorted_assets, idx, result, bal0, draws, attr_log >>

\* mutant: the contribution added in retirement too
Contributed_EveryYear(asset, a, p) == asset.balance + asset.annual_contribution

\* lines 178-179
Contributed(asset, a, p) ==
    IF a < p.retirement_age
    THEN asset.balance + asset.annual_contribution
    ELSE asset.balance

ApplyContribution ==
    /\ pc = "contribution"
    /\ objs' = [objs EXCEPT ![assets[idx]].balance =
                                Contributed(objs[assets[idx]], age, params)]
    /\ idx' = IF idx < Len(assets) THEN idx + 1 ELSE 1
    /\ pc' = IF idx < Len(assets) THEN "growth" ELSE "dividends"
    /\ UNCHANGED << tax_calls, params, input0, age, people, person_tax_free_remaining, assets,
                    yearly_data, yearVars, shortfall, remaining_shortfall,
                    sorted_assets, result, bal0, draws, attr_log >>

\* line 183: asset.type == "general" and asset.dividend_yield
\* The second operand is evaluated for a general asset only; Asset declares no
\* such field, so the read raises AttributeError.
ReadsDividendYield(asset) == asset.type = "general"

DividendYieldRaises == "dividend_yield" \notin AssetFields

\* lines 191-195: the loop over asset.owners, from position k on
RECURSIVE DividendsToOwners(_, _, _, _)
DividendsToOwners(owners, k, dividends, pdi) ==
    IF k > Len(owners) THEN pdi
    ELSE LET pid == owners[k].person_id
         IN  DividendsToOwners(owners, k + 1, dividends,
                 IF pid \in SeqRange(people)
                 THEN [pdi EXCEPT ![pid] = @ + (dividends * owners[k].share) \div 100]
                 ELSE pdi)

\* lines 183-195, for one asset
AssetDividends(asset, pdi) ==
    IF ~(asset.type = "general" /\ asset.dividend_yield # 0) THEN pdi
    ELSE LET dividends == (asset.balance * asset.dividend_yield) \div 100
         IN  IF asset.owners = << >>
             THEN IF people # << >>
                  THEN [pdi EXCEPT ![people[1]] = @ + dividends]
                  ELSE pdi
             ELSE DividendsToOwners(asset.owners, 1, dividends, pdi)

\* lines 182-195: the loop over assets, from position i on
RECURSIVE AllDividends(_, _)
AllDividends(i, pdi) ==
    IF i > Len(assets) THEN pdi
    ELSE AllDividends(i + 1, AssetDividends(objs[assets[i]], pdi))

\* lines 182-195.  The first general asset of the list raises, before any
\* dividend is attributed.
AttributeDividends ==
    /\ pc = "dividends"
    /\ IF DividendYieldRaises
          /\ \E i \in DOMAIN assets : ReadsDividendYield(objs[assets[i]])
       THEN /\ pc' = "raised"
            /\ UNCHANGED person_dividend_income
       ELSE /\ pc' = "shortfall"
            /\ person_dividend_income' = AllDividends(1, person_dividend_income)
    /\ UNCHANGED << tax_calls, params, objs, input0, age, people, person_tax_free_remaining,
                    assets, yearly_data, required_income, generated_income,
                    income_breakdown, person_taxable_income, person_cgt_gains,
                    person_cgt_property_gains, shortfall, remaining_shortfall,
                    sorted_assets, idx, result, bal0, draws, attr_log >>

\* line 202-203: priority_map.get(a.type, 999), where
\* priority_map = {ptype: i for i, ptype in enumerate(withdrawal_priority)}
\* (a type listed twice keeps its last index)
PriorityRank(type, priority) ==
    LET at == {i \in DOMAIN priority : priority[i] = type}
    IN  IF at = {} THEN ABSENT_RANK
        ELSE (CHOOSE i \in at : \A j \in at : j <= i) - 1

\* sorted() is stable: x goes behind every element whose key is <= its own
RECURSIVE InsertByKey(_, _, _)
InsertByKey(s, x, key) ==
    IF s = << >> THEN << x >>
    ELSE IF key[Head(s)] <= key[x]
         THEN << Head(s) >> \o InsertByKey(Tail(s), x, key)
         ELSE << x >> \o s

RECURSIVE StableSort(_, _)
StableSort(s, key) ==
    IF s = << >> THEN << >>
    ELSE InsertByKey(StableSort(SubSeq(s, 1, Len(s) - 1), key), s[Len(s)], key)

\* mutant: 25% of the withdrawal, whatever is left of the allowance
TaxFreePortion_Unlimited(amount, tax_free_available) == (amount * 25) \div 100

\* mutant: the withdrawable assets in input order, unsorted
SortedAssets_Unsorted(refs, heap, priority) ==
    SelectSeq(refs, LAMBDA r : heap[r].is_withdrawable)

\* lines 201-203
SortedAssets(refs, heap, priority) ==
    LET withdrawable_assets == SelectSeq(refs, LAMBDA r : heap[r].is_withdrawable)
        key == [r \in SeqRange(refs) |-> PriorityRank(heap[r].type, priority)]
    IN  StableSort(withdrawable_assets, key)

\* line 198
Shortfall(required, generated) == Max2(0, required - generated)

\* lines 198-205
ComputeShortfall ==
    /\ pc = "shortfall"
    /\ shortfall' = Shortfall(required_income, generated_income)
    /\ IF shortfall' > 0
       THEN /\ sorted_assets' = SortedAssets(assets, objs, params.withdrawal_priority)
            /\ remaining_shortfall' = shortfall'
            /\ idx' = 1
            /\ pc' = "withdraw"
       ELSE /\ UNCHANGED << sorted_assets, remaining_shortfall, idx >>
            /\ pc' = "tax"
    /\ UNCHANGED << tax_calls, params, objs, input0, age, people, person_tax_free_remaining,
                    assets, yearly_data, yearVars, result, bal0, draws, attr_log >>

\* mutant: min(remaining_shortfall, max_draw), the balance left out
Withdrawal_IgnoresBalance(asset, remaining) ==
    IF asset.max_annual_withdrawal = None
    THEN remaining
    ELSE Min2(remaining, asset.max_annual_withdrawal[1])

\* mutant: min(asset.balance, max_draw), the shortfall left out
Withdrawal_IgnoresShortfall(asset, remaining) ==
    IF asset.max_annual_withdrawal = None
    THEN asset.balance
    ELSE Min2(asset.balance, asset.max_annual_withdrawal[1])

\* lines 210-215: min(asset.balance, remaining_shortfall, max_draw),
\* max_draw being infinite when the asset has no max_annual_withdrawal
Withdrawal(asset, remaining) ==
    IF asset.max_annual_withdrawal = None
    THEN Min2(asset.balance, remaining)
    ELSE Min2(Min2(asset.balance, remaining), asset.max_annual_withdrawal[1])

\* lines 301-302: the tax-free part of a pension withdrawal (UFPLS)
TaxFreePortion(amount, tax_free_available) ==
    Min2((amount * 25) \div 100, tax_free_available)

\* lines 286-308: st holds the four dicts the function writes, and the log
_attribute_withdrawal_tax(pid, amount, asset, st) ==
    IF _is_tax_free_withdrawal(asset) THEN st
    ELSE IF _is_pension_withdrawal(asset) THEN
        LET tax_free_available ==
                IF pid \in DOMAIN st.tfr THEN st.tfr[pid] ELSE 0
            tax_free_portion == TaxFreePortion(amount, tax_free_available)
            taxable_portion == amount - tax_free_portion
        IN  [st EXCEPT
               !.tfr = Put(st.tfr, pid, tax_free_available - tax_free_portion),
               !.pti = [@ EXCEPT ![pid] = @ + taxable_portion],
               !.log = Append(@, [pid |-> pid, amount |-> amount,
                                  available |-> tax_free_available,
                                  tax_free |-> tax_free_portion,
                                  remaining |-> tax_free_available - tax_free_portion,
                                  taxable_before |-> st.pti[pid],
                                  taxable_after |-> st.pti[pid] + taxable_portion])]
    ELSE IF _is_cgt_asset(asset) THEN
        [st EXCEPT !.cgt = [@ EXCEPT ![pid] = @ + amount]]
    ELSE IF _is_property_cgt(asset) THEN
        [st EXCEPT !.prop = [@ EXCEPT ![pid] = @ + amount]]
    ELSE st

\* lines 232-241: the loop over asset.owners, from position i on
RECURSIVE AttributeToOwners(_, _, _, _)
AttributeToOwners(asset, withdrawal, i, st) ==
    IF i > Len(asset.owners) THEN st
    ELSE LET ownership == asset.owners[i]
             pid == ownership.person_id
             share_amount == (withdrawal * ownership.share) \div 100
         IN  IF pid \notin SeqRange(people)
             THEN AttributeToOwners(asset, withdrawal, i + 1, st)
             ELSE AttributeToOwners(asset, withdrawal, i + 1,
                      _attribute_withdrawal_tax(pid, share_amount, asset, st))

\* lines 222-241
AttributeByOwnership(asset, withdrawal, st) ==
    IF asset.owners = << >>
    THEN IF people # << >>
         THEN _attribute_withdrawal_tax(people[1], withdrawal, asset, st)
         ELSE st
    ELSE AttributeToOwners(asset, withdrawal, 1, st)

\* lines 206-241, one iteration that draws
Draw ==
    /\ pc = "withdraw"
    /\ idx <= Len(sorted_assets)
    /\ remaining_shortfall > 0
    /\ LET ref == sorted_assets[idx]
           asset == objs[ref]
           withdrawal == Withdrawal(asset, remaining_shortfall)
           st == AttributeByOwnership(asset, withdrawal,
                    [tfr |-> person_tax_free_remaining,
                     pti |-> person_taxable_income,
                     cgt |-> person_cgt_gains,
                     prop |-> person_cgt_property_gains,
                     log |-> attr_log])
       IN  /\ asset.balance > 0
           /\ objs' = [objs EXCEPT ![ref].balance = @ - withdrawal]
           /\ remaining_shortfall' = remaining_shortfall - withdrawal
           /\ generated_income' = generated_income + withdrawal
           /\ income_breakdown' =
                  Put(income_breakdown, WithdrawalLabel(asset.name), withdrawal)
           /\ person_tax_free_remaining' = st.tfr
           /\ person_taxable_income' = st.pti
           /\ person_cgt_gains' = st.cgt
           /\ person_cgt_property_gains' = st.prop
           /\ attr_log' = st.log
           /\ draws' = Append(draws, [ref |-> ref, amount |-> withdrawal,
                                      balance_before |-> asset.balance,
                                      remaining_before |-> remaining_shortfall])
    /\ idx' = idx + 1
    /\ UNCHANGED << tax_calls, params, input0, pc, age, people, assets, yearly_data,
                    required_income, person_dividend_income, shortfall,
                    sorted_assets, result, bal0 >>

\* lines 206-209, one iteration over an asset with nothing in it
SkipEmpty ==
    /\ pc = "withdraw"
    /\ idx <= Len(sorted_assets)
    /\ remaining_shortfall > 0
    /\ ~(objs[sorted_assets[idx]].balance > 0)
    /\ idx' = idx + 1
    /\ UNCHANGED << tax_calls, params, objs, input0, pc, age, people, person_tax_free_remaining,
                    assets, yearly_data, yearVars, shortfall, remaining_shortfall,
                    sorted_assets, result, bal0, draws, attr_log >>

\* lines 206-208: the loop ends, by exhaustion or by the break
EndWithdraw ==
    /\ pc = "withdraw"
    /\ (idx > Len(sorted_assets) \/ remaining_shortfall <= 0)
    /\ pc' = "tax"
    /\ UNCHANGED << tax_calls, params, objs, input0, age, people, person_tax_free_remaining,
                    assets, yearly_data, yearVars, shortfall, remaining_shortfall,
                    sorted_assets, idx, result, bal0, draws, attr_log >>

\* the name of the person with this id (the dict keeps the last one given)
PersonName(ps, pid) ==
    LET at == {i \in DOMAIN ps : ps[i].id = pid}
    IN  ps[CHOOSE i \in at : \A j \in at : j <= i].name

\* lines 251-254 and 256-265: one person's entry.  The accumulators are in
\* pounds and the taxes in pence.
PersonTaxEntry(taxable_inc, cgt_gains, prop_gains, dividends, up) ==
    LET income_tax == calculate_uk_income_tax(taxable_inc, up)
        cgt == calculate_uk_cgt(cgt_gains, taxable_inc, FALSE, up)
        property_cgt == calculate_uk_cgt(prop_gains, taxable_inc + cgt_gains, TRUE, up)
        dividend_tax == calculate_uk_dividend_tax(dividends, taxable_inc, up)
    IN  [income_tax |-> income_tax,
         cgt |-> cgt,
         property_cgt |-> property_cgt,
         dividend_tax |-> dividend_tax,
         total |-> income_tax + cgt + property_cgt + dividend_tax,
         taxable_income |-> taxable_inc,
         cgt_gains |-> cgt_gains,
         dividends |-> dividends]

\* lines 244-265: person_tax[person.name].  The accumulators of a run are
\* whole pounds, of which income tax and capital gains tax are whole pence,
\* so that no half penny is rounded (TaxesOfRunExact below).
RECURSIVE PersonTax(_, _)
PersonTax(i, acc) ==
    IF i > Len(people) THEN acc
    ELSE PersonTax(i + 1,
            Put(acc, PersonName(params.people, people[i]),
                PersonTaxEntry(person_taxable_income[people[i]],
                               person_cgt_gains[people[i]],
                               person_cgt_property_gains[people[i]],
                               person_dividend_income[people[i]], FALSE)))

\* line 119
calculate_total_balance(refs, heap) ==
    SumSeq([i \in DOMAIN refs |-> heap[refs[i]].balance])

\* line 273: {a.name: a.balance for a in assets}
RECURSIVE AssetBalances(_, _, _, _)
AssetBalances(refs, heap, i, acc) ==
    IF i > Len(refs) THEN acc
    ELSE AssetBalances(refs, heap, i + 1,
                       Put(acc, heap[refs[i]].name, heap[refs[i]].balance))

\* lines 268-277
YearRecord ==
    [age |-> age,
     required_income |-> required_income,
     generated_income |-> generated_income,
     total_assets |-> calculate_total_balance(assets, objs),
     asset_balances |-> AssetBalances(assets, objs, 1, EmptyDict),
     income_breakdown |-> income_breakdown,
     shortfall_remaining |-> Max2(0, required_income - generated_income),
     tax_breakdown |-> PersonTax(1, EmptyDict)]

\* lines 243-278, and the loop's step to the next age
RecordYear ==
    /\ pc = "tax"
    /\ yearly_data' = Append(yearly_data, YearRecord)
    /\ age' = age + 1
    /\ pc' = "loop"
    /\ UNCHANGED << tax_calls, params, objs, input0, people, person_tax_free_remaining,
                    assets, yearVars, shortfall, remaining_shortfall,
                    sorted_assets, idx, result, bal0, draws, attr_log >>

\* lines 280-283
Return ==
    /\ pc = "loop"
    /\ age > params.life_expectancy
    /\ result' = Some([params |-> ModelDump(params, objs), timeline |-> yearly_data])
    /\ pc' = "done"
    /\ UNCHANGED << tax_calls, params, objs, input0, age, people, person_tax_free_remaining,
                    assets, yearly_data, yearVars, shortfall, remaining_shortfall,
                    sorted_assets, idx, bal0, draws, attr_log >>

Next ==
    \/ Setup
    \/ BeginYear
    \/ ApplyGrowth
    \/ ApplyContribution
    \/ AttributeDividends
    \/ ComputeShortfall
    \/ Draw
    \/ SkipEmpty
    \/ EndWithdraw
    \/ RecordYear
    \/ Return

\* ------------------------------------------------------------------ inputs
Person(id, name) == [id |-> id, name |-> name]
AssetOwnership(person_id, share) == [person_id |-> person_id, share |-> share]

\* share is a percentage here: 0.5 is 50
Asset(name, type, balance, rate, contribution, withdrawable, cap, owners) ==
    [name |-> name, type |-> type, balance |-> balance,
     annual_growth_rate |-> rate, annual_contribution |-> contribution,
     is_withdrawable |-> withdrawable, max_annual_withdrawal |-> cap,
     owners |-> owners]

IncomeSource(name, amount, start_age, end_age, person_id) ==
    [name |-> name, amount |-> amount, start_age |-> start_age,
     end_age |-> end_age, person_id |-> person_id]

SimulationParams(ca, ra, le, infl, desired, ppl, as, incs, prio) ==
    [current_age |-> ca, retirement_age |-> ra, life_expectancy |-> le,
     inflation_rate |-> infl, desired_annual_income |-> desired,
     people |-> ppl, assets |-> as, incomes |-> incs,
     withdrawal_priority |-> prio]

\* test_tax_features.py:19: the dividend_yield the callers give a general asset
\* (a percentage)
DIVIDEND_YIELD_GIVEN == 4

\* the keyword arguments an Asset of the inputs is constructed from
Kwargs(asset) ==
    IF asset.type = "general"
    THEN [f \in (DOMAIN asset) \cup {"dividend_yield"} |->
             IF f = "dividend_yield" THEN DIVIDEND_YIELD_GIVEN ELSE asset[f]]
    ELSE asset

\* models.py: the Asset object made of keyword arguments; a keyword that is
\* no field of the class is ignored
Validated(kwargs) == [f \in (DOMAIN kwargs) \cap AssetFields |-> kwargs[f]]

Alice == Person("p1", "Alice")
Bob == Person("p2", "Bob")

\* every list of 1..MaxAssets assets of a menu
AssetLists(menu) == UNION {[1..n -> menu] : n \in 1..MaxAssets}

\* Waterfall: what is drawn, from which asset, in which order
WaterfallMenu ==
    { Asset("Cash", "cash", 16, 0, 0, TRUE, None, << >>),
      Asset("Cash", "cash", 32, 0, 0, TRUE, Some(8), << >>),
      Asset("ISA", "isa", 16, 0, 0, TRUE, None, << >>),
      Asset("ISA", "isa", 0, 0, 0, TRUE, None, << >>),
      Asset("House", "property", 16, 0, 0, FALSE, None, << >>),
      Asset("Bonds", "premium_bonds", 8, 0, 0, TRUE, Some(0), << >>) }

WaterfallInputs ==
    { SimulationParams(1, 1, le, 0, desired, << >>, as, << >>, prio) :
        le \in 1..MaxYears, desired \in {0, 24, 40},
        as \in AssetLists(WaterfallMenu),
        prio \in { << "cash", "isa" >>, << "isa", "cash", "isa" >>,
                   << "premium_bonds" >> } }

\* Growth: growth, contribution and retirement
GrowthMenu ==
    { Asset("ISA", "isa", 16, 100, 8, TRUE, None, << >>),
      Asset("ISA", "isa", 16, 0, -24, TRUE, None, << >>),
      Asset("Cash", "cash", 8, -100, 0, TRUE, None, << >>),
      Asset("Cash", "cash", 0, 50, 16, TRUE, None, << >>),
      Asset("House", "property", 16, 100, 8, FALSE, None, << >>),
      Asset("Cash", "cash", -8, 0, 8, TRUE, None, << >>) }

GrowthInputs ==
    { SimulationParams(1, ra, le, 0, desired, << >>, as, incs, << "isa", "cash" >>) :
        ra \in {1, 2}, le \in 1..MaxYears,
        desired \in {0, 16}, as \in AssetLists(GrowthMenu),
        incs \in { << IncomeSource("Job", 8, 1, 1, None) >>,
                   << IncomeSource("Job", -8, 1, 2, None) >> } }

\* Pension: owners, shares and the lifetime allowance
PensionMenu ==
    { Asset("Pension", "pension", 2000000, 0, 0, TRUE, None,
            << AssetOwnership("p1", 100) >>),
      Asset("Pension", "pension", 2000000, 0, 0, TRUE, None,
            << AssetOwnership("p1", 50), AssetOwnership("p2", 50) >>),
      Asset("Pension", "pension", 1200000, 0, 0, TRUE, None, << >>),
      Asset("Pension", "pension", 800, 0, 0, TRUE, Some(-8),
            << AssetOwnership("p1", 100) >>),
      Asset("Pension", "pension", 800, 0, 0, TRUE, Some(80),
            << AssetOwnership("p3", 100), AssetOwnership("p2", 100) >>),
      Asset("RSU", "rsu", 800, 0, 0, TRUE, None,
            << AssetOwnership("p1", 50), AssetOwnership("p2", 50) >>),
      Asset("House", "property", 800, 0, 0, TRUE, None, << >>) }

PensionInputs ==
    { SimulationParams(1, 1, le, 0, desired, ppl, as, incs, << "pension", "rsu" >>) :
        le \in 1..MaxYears, desired \in {400, 1200000},
        ppl \in { << >>, << Alice >>, << Alice, Bob >> },
        as \in AssetLists(PensionMenu),
        incs \in { << >>, << IncomeSource("DB", 80, 1, 1, Some("p1")) >> } }

\* Ages: the range of the loop and the incomes' windows
AgesInputs ==
    { SimulationParams(ca, ca + dr, ca + dl, infl, 24, << Alice >>, as, incs, << "cash" >>) :
        ca \in {0, 1, 2}, dr \in {0, 1, MaxYears + 1}, dl \in -1..(MaxYears - 1),
        infl \in {0, 100},
        as \in { << >>,
                 << Asset("Cash", "cash", 64, 0, 0, TRUE, None, << >>) >>,
                 << Asset("GIA", "general", 64, 0, 0, TRUE, None, << >>) >> },
        incs \in { << >>,
                   << IncomeSource("Job", 8, 1, 2, Some("p1")),
                      IncomeSource("Job", 16, 2, 3, Some("p9")) >> } }

\* Dividends: general assets, their owners and the people
DividendMenu ==
    { Asset("GIA", "general", 150000, 0, 0, TRUE, None,
            << AssetOwnership("p1", 50), AssetOwnership("p2", 50) >>),
      Asset("GIA", "general", 800, 50, 50, TRUE, None,
            << AssetOwnership("p1", 100) >>),
      Asset("GIA", "general", 800, 0, 0, TRUE, None,
            << AssetOwnership("p3", 100) >>),
      Asset("GIA", "general", 100, 0, 0, TRUE, None, << >>),
      Asset("Cash", "cash", 64, 0, 0, TRUE, None, << >>) }

DividendInputs ==
    { SimulationParams(1, ra, le, 0, desired, ppl, as, << >>, << "general" >>) :
        ra \in {1, 2}, le \in 1..MaxYears, desired \in {0, 400},
        ppl \in { << >>, << Alice >>, << Alice, Bob >> },
        as \in AssetLists(DividendMenu) }

Inputs ==
    WaterfallInputs \cup GrowthInputs \cup PensionInputs \cup AgesInputs
        \cup DividendInputs

Init ==
    /\ input0 \in Inputs
    /\ params = [input0 EXCEPT !.assets = [i \in DOMAIN input0.assets |-> i]]
    /\ objs = [i \in DOMAIN input0.assets |-> Validated(Kwargs(input0.assets[i]))]
    /\ pc = "setup"
    /\ age = 0
    /\ people = << >>
    /\ person_tax_free_remaining = EmptyDict
    /\ assets = << >>
    /\ yearly_data = << >>
    /\ required_income = 0
    /\ generated_income = 0
    /\ income_breakdown = EmptyDict
    /\ person_taxable_income = EmptyDict
    /\ person_cgt_gains = EmptyDict
    /\ person_cgt_property_gains = EmptyDict
    /\ person_dividend_income = EmptyDict
    /\ shortfall = 0
    /\ remaining_shortfall = 0
    /\ sorted_assets = << >>
    /\ idx = 1
    /\ result = None
    /\ bal0 = << >>
    /\ draws = << >>
    /\ attr_log = << >>
    /\ tax_calls = << >>

Spec == Init /\ [][Next]_vars

\* ------------------------------------------------- the tax functions, called
\* The tax functions are pure; here they are called directly, as
\* test_engine.py does, and tax_calls keeps the last two calls with what they
\* returned.  A series of calls is of one function with one baseline (and
\* one is_property), and varies the taxable amount.

\* taxable amounts, in pounds: around zero, the allowances, the band limits
\* and the taper
TaxAmounts ==
    {-1, 0, 1, 500, 501, 502, 510, 3000, 3001, 12570, 12571, 50270, 50271,
     53270, 100000, 100001, 100002, 112570, 125139, 125140, 125141, 2000000}

\* other taxable income, in pounds
TaxBaselines ==
    {-1000, 0, 47269, 50269, 50270, 125139, 125140, 2000000}

TaxCall(fn, amount, other, is_property, value) ==
    [fn |-> fn, amount |-> amount, other |-> other,
     is_property |-> is_property, value |-> value]

\* the call continues the series
SameSeries(fn, other, is_property) ==
    IF tax_calls = << >> THEN TRUE
    ELSE LET last == tax_calls[Len(tax_calls)]
         IN  last.fn = fn /\ last.other = other /\ last.is_property = is_property

Called(call) ==
    /\ tax_calls' = IF tax_calls = << >> THEN << call >>
                    ELSE << tax_calls[Len(tax_calls)], call >>
    /\ UNCHANGED << params, objs, input0, pc, age, people,
                    person_tax_free_remaining, assets, yearly_data, yearVars,
                    shortfall, remaining_shortfall, sorted_assets, idx, result,
                    bal0, draws, attr_log >>

CallIncomeTax ==
    \E income \in TaxAmounts, up \in BOOLEAN :
        /\ SameSeries("calculate_uk_income_tax", 0, FALSE)
        /\ Called(TaxCall("calculate_uk_income_tax", income, 0, FALSE,
                          calculate_uk_income_tax(income, up)))

CallCgt ==
    \E gains \in TaxAmounts, taxable_income \in TaxBaselines,
       is_property \in BOOLEAN, up \in BOOLEAN :
        /\ SameSeries("calculate_uk_cgt", taxable_income, is_property)
        /\ Called(TaxCall("calculate_uk_cgt", gains, taxable_income, is_property,
                          calculate_uk_cgt(gains, taxable_income, is_property, up)))

CallDividendTax ==
    \E dividends \in TaxAmounts, taxable_income \in TaxBaselines, up \in BOOLEAN :
        /\ SameSeries("calculate_uk_dividend_tax", taxable_income, FALSE)
        /\ Called(TaxCall("calculate_uk_dividend_tax", dividends, taxable_income,
                          FALSE,
                          calculate_uk_dividend_tax(dividends, taxable_income, up)))

TaxNext ==
    \/ CallIncomeTax
    \/ CallCgt
    \/ CallDividendTax

\* no run is in progress
TaxInit ==
    /\ input0 = SimulationParams(0, 0, 0, 0, 0, << >>, << >>, << >>, << >>)
    /\ params = input0
    /\ objs = << >>
    /\ pc = "idle"
    /\ age = 0
    /\ people = << >>
    /\ person_tax_free_remaining = EmptyDict
    /\ assets = << >>
    /\ yearly_data = << >>
    /\ required_income = 0
    /\ generated_income = 0
    /\ income_breakdown = EmptyDict
    /\ person_taxable_income = EmptyDict
    /\ person_cgt_gains = EmptyDict
    /\ person_cgt_property_gains = EmptyDict
    /\ person_dividend_income = EmptyDict
    /\ shortfall = 0
    /\ remaining_shortfall = 0
    /\ sorted_assets = << >>
    /\ idx = 1
    /\ result = None
    /\ bal0 = << >>
    /\ draws = << >>
    /\ attr_log = << >>
    /\ tax_calls = << >>

TaxSpec == TaxInit /\ [][TaxNext]_vars

\* ------------------------------------------------------------------ claims

\* the positions of the engine inside one simulated year
InYear == pc \in {"growth", "contribution", "dividends", "shortfall",
                  "withdraw", "tax", "raised"}

Terminated == pc \in {"done", "raised"}

DrawnAmounts == [k \in DOMAIN draws |-> draws[k].amount]

Drawn(ref) == \E k \in DOMAIN draws : draws[k].ref = ref

\* the sum of the scheduled incomes active at age a, inflated
ActiveIncomeSum(p, a) ==
    SumSeq([i \in DOMAIN p.incomes |->
              IF p.incomes[i].start_age <= a /\ a <= p.incomes[i].end_age
              THEN Inflate(p.incomes[i].amount, p.inflation_rate, a - p.current_age)
              ELSE 0])

Shortfall0 == Max2(0, required_income - ActiveIncomeSum(input0, age))

\* the balance an asset had when this year's withdrawals began
PreBal(ref) ==
    IF Drawn(ref)
    THEN draws[CHOOSE k \in DOMAIN draws : draws[k].ref = ref].balance_before
    ELSE objs[ref].balance

\* no asset held a negative balance when this year's withdrawals began
NoneNegative == \A r \in SeqRange(assets) : PreBal(r) >= 0

\* position of a run asset in the asset list (the input order)
Pos(ref) == CHOOSE i \in DOMAIN assets : assets[i] = ref

Listed(type) == \E i \in DOMAIN params.withdrawal_priority :
                    params.withdrawal_priority[i] = type

\* the position of a listed type: the last one, when it is listed more than once
LastPosition(type) ==
    CHOOSE i \in DOMAIN params.withdrawal_priority :
        /\ params.withdrawal_priority[i] = type
        /\ \A j \in DOMAIN params.withdrawal_priority :
               params.withdrawal_priority[j] = type => j <= i

SameRank(t, u) ==
    \/ ~Listed(t) /\ ~Listed(u)
    \/ Listed(t) /\ Listed(u) /\ LastPosition(t) = LastPosition(u)

\* run asset q comes before run asset r in the withdrawal order
Precedes(q, r) ==
    LET t == objs[q].type
        u == objs[r].type
    IN  \/ Listed(t) /\ ~Listed(u)
        \/ Listed(t) /\ Listed(u) /\ LastPosition(t) < LastPosition(u)
        \/ SameRank(t, u) /\ Pos(q) < Pos(r)

\* asset q was drawn its max_annual_withdrawal before draw number k
DrawnItsCap(q, k) ==
    \E j \in 1..(k - 1) :
        /\ draws[j].ref = q
        /\ objs[q].max_annual_withdrawal # None
        /\ draws[j].amount = objs[q].max_annual_withdrawal[1]

DrawsFollowPriority ==
    \A k \in DOMAIN draws :
        /\ objs[draws[k].ref].is_withdrawable
        /\ \A j \in 1..(k - 1) : Precedes(draws[j].ref, draws[k].ref)

Withdrawables == {r \in SeqRange(assets) : objs[r].is_withdrawable}

RECURSIVE SumOver(_, _)
SumOver(S, f) ==
    IF S = {} THEN 0
    ELSE LET x == CHOOSE y \in S : TRUE IN f[x] + SumOver(S \ {x}, f)

\* what growth and contribution make of the balance an asset began the year with
GrownAndContributed(i) ==
    LET a == objs[assets[i]]
    IN  (bal0[i] * (100 + a.annual_growth_rate)) \div 100
            + (IF age < params.retirement_age THEN a.annual_contribution ELSE 0)

\* every scheduled income active at age a is non-negative once inflated
IncomesNonNegative(p, a) ==
    \A i \in DOMAIN p.incomes :
        (p.incomes[i].start_age <= a /\ a <= p.incomes[i].end_age)
            => Inflate(p.incomes[i].amount, p.inflation_rate, a - p.current_age) >= 0

NoWithdrawalEntry(breakdown) == (DOMAIN breakdown) \cap WithdrawalLabels = {}

\* Every quotient the run forms is exact on the inputs drawn: the growth of the
\* asset about to grow, and each owner's share and its quarter in every draw.
ExactArithmetic ==
    /\ pc = "growth" =>
           (objs[assets[idx]].balance * objs[assets[idx]].annual_growth_rate) % 100 = 0
    /\ \A k \in DOMAIN draws : \A i \in DOMAIN objs[draws[k].ref].owners :
           /\ (draws[k].amount * objs[draws[k].ref].owners[i].share) % 100 = 0
           /\ objs[draws[k].ref].type = "pension" =>
                  ((draws[k].amount * objs[draws[k].ref].owners[i].share) \div 100) % 4 = 0
    /\ \A k \in DOMAIN draws :
           objs[draws[k].ref].type = "pension" => draws[k].amount % 4 = 0

\* C1: in every simulated year the amounts withdrawn from assets sum to at most
\* max(0, required_income - generated_income) as it stood before the year's first
\* withdrawal, generated_income being then the sum of the active scheduled incomes.
C1_WithdrawnAtMostShortfall ==
    pc \in {"withdraw", "tax"} =>
        SumSeq(DrawnAmounts)
            <= Max2(0, required_income - ActiveIncomeSum(input0, age))

\* C1 witness: a year in which two assets were drawn and the draws add up to a
\* positive shortfall exactly.
C1_Witness ==
    /\ pc = "tax"
    /\ Len(draws) >= 2
    /\ \A k \in DOMAIN draws : draws[k].amount > 0
    /\ SumSeq(DrawnAmounts) = required_income - ActiveIncomeSum(input0, age)

\* C2: when every input asset has balance >= 0, every asset's balance is >= 0
\* after every step of every simulated year.
C2_BalancesNeverNegative ==
    (\A i \in DOMAIN input0.assets : input0.assets[i].balance >= 0)
        => \A r \in DOMAIN objs : objs[r].balance >= 0

\* C3 (as stated): within a year assets are drawn in the order of their type's
\* position in withdrawal_priority (absent types last, equal ranks in input
\* order), and an asset is drawn only after every withdrawable asset before it
\* in that order has been exhausted (balance 0).  Stated for the years in which
\* no balance was negative when the withdrawals began.
C3_EachExhaustedBeforeNext ==
    (pc \in {"withdraw", "tax"} /\ NoneNegative) =>
        /\ DrawsFollowPriority
        /\ \A k \in DOMAIN draws : \A q \in SeqRange(assets) :
               (objs[q].is_withdrawable /\ Precedes(q, draws[k].ref))
                   => objs[q].balance = 0

\* C3 (amended): the same order (a type listed twice ranks at its last position),
\* and an asset is drawn only after every withdrawable asset before it in that
\* order has no positive balance left or has been drawn its
\* max_annual_withdrawal this year.
C3_ExhaustedOrCappedBeforeNext ==
    pc \in {"withdraw", "tax"} =>
        /\ DrawsFollowPriority
        /\ \A k \in DOMAIN draws : \A q \in SeqRange(assets) :
               (objs[q].is_withdrawable /\ Precedes(q, draws[k].ref))
                   => (objs[q].balance <= 0 \/ DrawnItsCap(q, k))

\* C3 witness: the second asset of the input ranks first and was drawn its
\* max_annual_withdrawal, which left it a positive balance; then the first asset
\* of the input was drawn.
C3_Witness ==
    /\ pc = "tax"
    /\ Len(draws) = 2
    /\ Pos(draws[1].ref) = 2 /\ Pos(draws[2].ref) = 1
    /\ draws[1].amount > 0 /\ draws[2].amount > 0
    /\ objs[draws[1].ref].balance > 0
    /\ DrawnItsCap(draws[1].ref, 2)

\* C4: for every pension withdrawal amount attributed to a person the tax-free
\* portion is at most 25% of the amount and at most the allowance the person
\* had left; the allowance afterwards is the allowance before minus that
\* portion; the allowance starts at 268275 and never increases; and once it is
\* 0 the whole amount is added to the person's taxable income.
C4_PensionAllowance ==
    /\ (pc = "loop" /\ yearly_data = << >>) =>
           \A pid \in DOMAIN person_tax_free_remaining :
               person_tax_free_remaining[pid] = PENSION_TAX_FREE_LIFETIME_LIMIT
    /\ \A pid \in DOMAIN person_tax_free_remaining :
           person_tax_free_remaining[pid] <= PENSION_TAX_FREE_LIFETIME_LIMIT
    /\ \A k \in DOMAIN attr_log :
           LET e == attr_log[k]
           IN  /\ 4 * e.tax_free <= e.amount
               /\ e.tax_free <= e.available
               /\ e.remaining = e.available - e.tax_free
               /\ e.remaining <= e.available
               /\ e.available = 0 => e.taxable_after = e.taxable_before + e.amount

\* The same, for the attributions of a non-negative amount (and the allowance
\* bounded only while no negative amount was attributed this year).
PensionAllowanceOfNonNegativeAmounts ==
    \A k \in DOMAIN attr_log :
        LET e == attr_log[k]
        IN  e.amount >= 0 =>
               /\ 4 * e.tax_free <= e.amount
               /\ e.tax_free <= e.available
               /\ e.tax_free >= 0
               /\ e.remaining = e.available - e.tax_free
               /\ e.remaining <= e.available
               /\ e.remaining >= 0
               /\ e.available = 0 => e.taxable_after = e.taxable_before + e.amount

\* a person's allowance was used up and a later pension withdrawal was taxed whole
AllowanceExhausted ==
    \E k \in DOMAIN attr_log :
        attr_log[k].available = 0 /\ attr_log[k].amount > 0

\* C5: a run with life_expectancy >= current_age ends with a timeline of exactly
\* life_expectancy - current_age + 1 records, one per age, ascending.
C5_FullTimeline ==
    (Terminated /\ input0.life_expectancy >= input0.current_age) =>
        /\ result # None
        /\ Len(result[1].timeline) = input0.life_expectancy - input0.current_age + 1
        /\ \A k \in DOMAIN result[1].timeline :
               result[1].timeline[k].age = input0.current_age + k - 1

\* Every run that returns has the full timeline: one record per age from
\* current_age to life_expectancy, ascending (none when life_expectancy is below
\* current_age).
ReturnedTimelineFull ==
    result # None =>
        /\ Len(result[1].timeline)
               = Max2(0, input0.life_expectancy - input0.current_age + 1)
        /\ \A k \in DOMAIN result[1].timeline :
               result[1].timeline[k].age = input0.current_age + k - 1

\* The run never stops short of returning or raising.
RunProceeds == Terminated \/ ENABLED Next

\* C6: for every accepted SimulationParams the run completes every year without
\* raising an error.
C6_NeverRaises == pc # "raised"

\* The run raises only on an input that holds an asset of type general.
RaisesOnlyForGeneral ==
    pc = "raised" => \E i \in DOMAIN input0.assets : input0.assets[i].type = "general"

\* C7: the caller's assets keep the balances they had before the run, at every
\* point of it, and the params echoed in the result are the input parameters.
C7_InputUntouched ==
    /\ \A i \in DOMAIN params.assets : objs[params.assets[i]] = input0.assets[i]
    /\ result # None => result[1].params = input0

\* C7 witness: a finished run of at least one year whose own copy of an asset
\* ends with another balance than the caller's asset.
C7_Witness ==
    /\ pc = "done"
    /\ result[1].timeline # << >>
    /\ \E i \in DOMAIN assets :
           objs[assets[i]].balance # input0.assets[i].balance

\* C8: once growth and contribution are applied, and for as long as nothing is
\* withdrawn from it that year, every asset (withdrawable or not) holds
\* balance_before * (1 + annual_growth_rate/100), plus annual_contribution if and
\* only if age < retirement_age.
C8_GrowthThenContribution ==
    pc \in {"dividends", "shortfall", "withdraw", "tax", "raised"} =>
        \A i \in DOMAIN assets :
            ~Drawn(assets[i]) => objs[assets[i]].balance = GrownAndContributed(i)

\* C8 witness: at the end of a year before retirement in which another asset was
\* drawn, an undrawn asset with growth and contribution has a new balance.
C8_Witness ==
    /\ pc = "tax"
    /\ age < params.retirement_age
    /\ draws # << >>
    /\ \E i \in DOMAIN assets :
           /\ ~Drawn(assets[i])
           /\ objs[assets[i]].annual_growth_rate > 0
           /\ objs[assets[i]].annual_contribution > 0
           /\ bal0[i] > 0
           /\ objs[assets[i]].balance > bal0[i] + objs[assets[i]].annual_contribution

\* C9 (as stated): in a year whose shortfall exceeds the total balance of the
\* withdrawable assets, every withdrawable asset ends the year at 0, no balance
\* is negative, and shortfall_remaining = shortfall - total withdrawn > 0.
\* Stated for the years in which no balance was negative when the withdrawals
\* began.
C9_AllExhausted ==
    (pc = "tax" /\ NoneNegative
       /\ Shortfall0 > SumOver(Withdrawables, [r \in Withdrawables |-> PreBal(r)]))
    => /\ \A r \in Withdrawables : objs[r].balance = 0
       /\ \A r \in SeqRange(assets) : objs[r].balance >= 0
       /\ YearRecord.shortfall_remaining = Shortfall0 - SumSeq(DrawnAmounts)
       /\ YearRecord.shortfall_remaining > 0

\* C9 (amended): in a year whose shortfall exceeds the total of the positive
\* balances of the withdrawable assets, every withdrawable asset whose
\* max_annual_withdrawal is absent or at least its balance ends the year with no
\* positive balance (0 if it had one), no withdrawal exceeds the balance it is
\* taken from, and shortfall_remaining = shortfall - total withdrawn > 0.
C9_UncappedExhausted ==
    (pc = "tax"
       /\ Shortfall0 > SumOver(Withdrawables,
                               [r \in Withdrawables |-> Max2(0, PreBal(r))]))
    => /\ \A r \in Withdrawables :
             (\/ objs[r].max_annual_withdrawal = None
              \/ objs[r].max_annual_withdrawal[1] >= PreBal(r))
                 => objs[r].balance = Min2(0, PreBal(r))
       /\ \A k \in DOMAIN draws : draws[k].amount <= draws[k].balance_before
       /\ YearRecord.shortfall_remaining = Shortfall0 - SumSeq(DrawnAmounts)
       /\ YearRecord.shortfall_remaining > 0

\* C9 witness: the shortfall exceeds what the withdrawable assets hold; one
\* asset was emptied and a capped one keeps a positive balance.
C9_Witness ==
    /\ pc = "tax"
    /\ Shortfall0 > SumOver(Withdrawables, [r \in Withdrawables |-> Max2(0, PreBal(r))])
    /\ \E r \in Withdrawables : PreBal(r) > 0 /\ objs[r].balance = 0
    /\ \E r \in Withdrawables : Drawn(r) /\ objs[r].balance > 0

\* C10: at every age before retirement_age the required income is 0, and when
\* the active scheduled incomes are non-negative nothing is withdrawn: no
\* "Withdrawal: ..." entry is recorded and the balances are those growth and
\* contribution give.
C10_NoWithdrawalBeforeRetirement ==
    /\ (InYear /\ age < params.retirement_age) =>
           /\ required_income = 0
           /\ IncomesNonNegative(params, age) =>
                  /\ draws = << >>
                  /\ NoWithdrawalEntry(income_breakdown)
                  /\ pc = "tax" => \A i \in DOMAIN assets :
                         objs[assets[i]].balance = GrownAndContributed(i)
    /\ \A k \in DOMAIN yearly_data :
           yearly_data[k].age < params.retirement_age =>
               /\ yearly_data[k].required_income = 0
               /\ IncomesNonNegative(params, yearly_data[k].age) =>
                      NoWithdrawalEntry(yearly_data[k].income_breakdown)

\* C10 witness: a recorded year before retirement, with a desired income, a
\* positive scheduled income and a withdrawable asset that holds money.
C10_Witness ==
    /\ yearly_data # << >>
    /\ yearly_data[1].age < params.retirement_age
    /\ params.desired_annual_income > 0
    /\ yearly_data[1].generated_income > 0
    /\ \E r \in SeqRange(assets) : objs[r].is_withdrawable /\ objs[r].balance > 0

\* in a run no tax is an exact half penny before it is rounded
TaxesOfRunExact ==
    pc = "tax" =>
        \A i \in DOMAIN people :
            PersonTaxEntry(person_taxable_income[people[i]],
                           person_cgt_gains[people[i]],
                           person_cgt_property_gains[people[i]],
                           person_dividend_income[people[i]], TRUE)
            = PersonTaxEntry(person_taxable_income[people[i]],
                             person_cgt_gains[people[i]],
                             person_cgt_property_gains[people[i]],
                             person_dividend_income[people[i]], FALSE)

\* ---- C11
\* the taxable amounts of the taper of the personal allowance
InTaper(amount) == amount > PA_TAPER_THRESHOLD /\ amount <= HIGHER_RATE_LIMIT

\* two calls of one function that differ in the taxable amount only
Comparable(a, b) ==
    a.fn = b.fn /\ a.other = b.other /\ a.is_property = b.is_property

\* C11: calculate_uk_income_tax, calculate_uk_cgt (standard and property) and
\* calculate_uk_dividend_tax never return a negative value, and of two calls
\* with the same other taxable income the one with the larger taxable amount
\* never returns less, the amounts of the allowance taper included.
C11_TaxNonNegativeMonotone ==
    /\ \A i \in DOMAIN tax_calls : tax_calls[i].value >= 0
    /\ \A i, j \in DOMAIN tax_calls :
           (Comparable(tax_calls[i], tax_calls[j])
            /\ tax_calls[i].amount < tax_calls[j].amount)
           => tax_calls[i].value <= tax_calls[j].value

\* income tax was computed at two amounts inside the taper, and rose
C11_Witness ==
    /\ Len(tax_calls) = 2
    /\ tax_calls[1].fn = "calculate_uk_income_tax"
    /\ tax_calls[2].fn = "calculate_uk_income_tax"
    /\ InTaper(tax_calls[1].amount) /\ InTaper(tax_calls[2].amount)
    /\ tax_calls[1].amount < tax_calls[2].amount
    /\ tax_calls[1].value < tax_calls[2].value

\* what the functions return at some arguments, in pence; the last three are
\* exactly half a penny before rounding, and the engine returns 0.17, 3.94
\* and 0.68 for them
TaxTableValues ==
    /\ \A up \in BOOLEAN :
        /\ calculate_uk_income_tax(12570, up) = 0
        /\ calculate_uk_income_tax(50270, up) = 754000
        /\ calculate_uk_income_tax(100000, up) = 2743200
        /\ calculate_uk_income_tax(100001, up) = 2743250
        /\ calculate_uk_income_tax(125140, up) = 4000200
        /\ calculate_uk_income_tax(2000000, up) = 88368900
        /\ calculate_uk_cgt(3000, 0, FALSE, up) = 0
        /\ calculate_uk_cgt(13000, 0, FALSE, up) = 100000
        /\ calculate_uk_cgt(13000, 60000, TRUE, up) = 240000
        /\ calculate_uk_cgt(53270, -1000, FALSE, up) = 502700
        /\ calculate_uk_cgt(2000000, 47269, TRUE, up) = 47909994
        /\ calculate_uk_dividend_tax(3000, 0, up) = 21875
        /\ calculate_uk_dividend_tax(2000000, 47269, up) = 78169222
    /\ calculate_uk_dividend_tax(502, 0, FALSE) = 17
    /\ calculate_uk_dividend_tax(510, 125140, TRUE) = 394
    /\ calculate_uk_dividend_tax(502, 50270, TRUE) = 68

\* ---- C12
\* the dividend_yield asset i of the input was constructed with
YieldGiven(i) == Kwargs(input0.assets[i]).dividend_yield

GivenPositiveYield(i) ==
    input0.assets[i].type = "general" /\ YieldGiven(i) > 0

\* asset i's balance after this year's growth and contribution, times its
\* yield, times the share of each ownership of the person in it; all of it
\* to the first person when the asset lists no owner
DividendsDue(pid, i) ==
    LET owners == objs[assets[i]].owners
        dividends == (GrownAndContributed(i) * YieldGiven(i)) \div 100
    IN  IF owners = << >>
        THEN IF pid = people[1] THEN dividends ELSE 0
        ELSE SumSeq([k \in DOMAIN owners |->
                IF owners[k].person_id = pid
                THEN (dividends * owners[k].share) \div 100
                ELSE 0])

ListedOwner(pid, i) ==
    \E k \in DOMAIN objs[assets[i]].owners :
        objs[assets[i]].owners[k].person_id = pid

\* C12: in every simulated year, before or after retirement, each known
\* person listed as an owner of a general asset that was given a positive
\* dividend_yield is recorded with dividends of that asset's balance after
\* the year's growth and contribution and before its withdrawals, times the
\* yield, times the share (summed over the general assets, with those that
\* list no owner counted for the first person).
C12_DividendsRecorded ==
    pc \in {"shortfall", "withdraw", "tax", "raised"} =>
        \A pid \in SeqRange(people) :
            (\E i \in DOMAIN assets : GivenPositiveYield(i) /\ ListedOwner(pid, i))
            => /\ pc # "raised"
               /\ person_dividend_income[pid] =
                      SumSeq([i \in DOMAIN assets |->
                          IF GivenPositiveYield(i) THEN DividendsDue(pid, i) ELSE 0])
               /\ pc = "tax" =>
                      YearRecord.tax_breakdown[PersonName(params.people, pid)].dividends
                          = person_dividend_income[pid]

\* The keyword is lost when the Asset is constructed: no Asset of a run has a
\* dividend_yield, and no year of a run attributes a dividend.
DividendYieldDropped ==
    /\ \A r \in DOMAIN objs : "dividend_yield" \notin DOMAIN objs[r]
    /\ \A pid \in DOMAIN person_dividend_income : person_dividend_income[pid] = 0
    /\ \A y \in DOMAIN yearly_data :
           \A n \in DOMAIN yearly_data[y].tax_breakdown :
               /\ yearly_data[y].tax_breakdown[n].dividends = 0
               /\ yearly_data[y].tax_breakdown[n].dividend_tax = 0

\* ---- C13
\* what of a withdrawal is a person's: the share of each ownership that lists
\* the person, or all of it for the first person when the asset lists no owner
ShareAmount(pid, asset, withdrawal) ==
    IF asset.owners = << >>
    THEN IF pid = people[1] THEN withdrawal ELSE 0
    ELSE SumSeq([k \in DOMAIN asset.owners |->
            IF asset.owners[k].person_id = pid
            THEN (withdrawal * asset.owners[k].share) \div 100
            ELSE 0])

\* the step adds these amounts to the person's four accumulators, takes
\* tax_free from the person's allowance, and leaves the dividends alone
Attributed(pid, taxable, gains, property_gains, tax_free) ==
    /\ person_taxable_income'[pid] = person_taxable_income[pid] + taxable
    /\ person_cgt_gains'[pid] = person_cgt_gains[pid] + gains
    /\ person_cgt_property_gains'[pid] = person_cgt_property_gains[pid] + property_gains
    /\ person_tax_free_remaining'[pid] = person_tax_free_remaining[pid] - tax_free
    /\ person_dividend_income'[pid] = person_dividend_income[pid]

\* the bucket of the asset's type receives the amount, and no other
AttributedByType(pid, asset, amount) ==
    CASE asset.type \in {"isa", "cash", "premium_bonds"} ->
            Attributed(pid, 0, 0, 0, 0)
      [] asset.type = "pension" ->
            LET tax_free == Min2((amount * 25) \div 100, person_tax_free_remaining[pid])
            IN  Attributed(pid, amount - tax_free, 0, 0, tax_free)
      [] asset.type \in {"general", "rsu"} ->
            Attributed(pid, 0, amount, 0, 0)
      [] asset.type = "property" ->
            Attributed(pid, 0, 0, amount, 0)

IsDraw == pc = "withdraw" /\ Len(draws') = Len(draws) + 1

\* C13: every withdrawal attributes to each known person withdrawal * share
\* (all of it to the first person when the asset lists no owner) in the one
\* bucket of the asset's type: none for isa, cash and premium_bonds, taxable
\* income less the tax-free quarter for pension, standard gains for general
\* and rsu, property gains for property; the person's other buckets keep
\* their values, and with no people nothing is attributed.
C13_WithdrawalAttributed ==
    [][ IsDraw =>
          LET d == draws'[Len(draws')]
          IN  /\ DOMAIN person_taxable_income' = SeqRange(people)
              /\ \A pid \in SeqRange(people) :
                     AttributedByType(pid, objs[d.ref],
                                      ShareAmount(pid, objs[d.ref], d.amount)) ]_vars

\* C13 witness: an rsu held half and half by two known people has just been
\* drawn, and each has a gain of half the withdrawal.
C13_Witness ==
    /\ pc = "withdraw"
    /\ Len(draws) = 1
    /\ LET d == draws[1]
           asset == objs[d.ref]
       IN  /\ asset.type = "rsu"
           /\ d.amount > 0
           /\ Len(asset.owners) = 2
           /\ asset.owners[1].person_id # asset.owners[2].person_id
           /\ \A k \in DOMAIN asset.owners :
                  /\ asset.owners[k].person_id \in SeqRange(people)
                  /\ person_cgt_gains[asset.owners[k].person_id] = d.amount \div 2

\* No withdrawal is ever made from a general asset: the run raises in the
\* first year of any input that holds one.
NoGeneralWithdrawal ==
    \A k \in DOMAIN draws : objs[draws[k].ref].type # "general"

\* ---- C14
DictSum(d) == SumOver(DOMAIN d, d)

\* no two assets and no two income sources of the input share a name
NamesDistinct ==
    /\ \A i, j \in DOMAIN input0.assets :
           input0.assets[i].name = input0.assets[j].name => i = j
    /\ \A i, j \in DOMAIN input0.incomes :
           input0.incomes[i].name = input0.incomes[j].name => i = j

BreakdownsAddUp(rec) ==
    /\ DictSum(rec.income_breakdown) = rec.generated_income
    /\ DictSum(rec.asset_balances) = rec.total_assets

\* C14: in every year record the values of income_breakdown sum to
\* generated_income and the values of asset_balances sum to total_assets, also
\* when several assets or several income sources share a name.
C14_BreakdownsAddUp ==
    \A y \in DOMAIN yearly_data : BreakdownsAddUp(yearly_data[y])

\* The sums do agree in every year record of an input whose assets have
\* distinct names and whose income sources have distinct names.
BreakdownsAddUpForDistinctNames ==
    NamesDistinct => \A y \in DOMAIN yearly_data : BreakdownsAddUp(yearly_data[y])

\* such a record exists, with a scheduled income and a withdrawal in it
DistinctNamesRecorded ==
    /\ NamesDistinct
    /\ \E y \in DOMAIN yearly_data :
           /\ Cardinality(DOMAIN yearly_data[y].income_breakdown) >= 2
           /\ Cardinality(DOMAIN yearly_data[y].asset_balances) >= 2
           /\ yearly_data[y].generated_income > 0
           /\ (DOMAIN yearly_data[y].income_breakdown) \cap WithdrawalLabels # {}
====
